---- MODULE Spec2Model ----
(***************************************************************************)
(* Model of the lesion-section progress tracking backend                   *)
(* (backend/app/main.py, crud.py, progress_analyzer.py, ai_client.py).     *)
(*                                                                         *)
(* Numbers.  Python floats are modelled in fixed point:                    *)
(*   - a cosine similarity s is the integer s * SimScale (thousandths),    *)
(*   - a healing percentage p is the integer p * PctUnit (1/1000 percent), *)
(*     so 20.0% is 20000 and 100% is 100000.                               *)
(* None is modelled per field: an embedding is a record with a 'null'      *)
(* flag, a missing healing_score is NoScore, a missing text is NoText.     *)
(***************************************************************************)
EXTENDS Integers, Sequences, FiniteSets, TLC

VARIABLES
    sections,     \* lesion_sections table: section_id -> row
    history,      \* history table: id -> row
    nextId,       \* history.id autoincrement
    issued,       \* section ids uuid4 has produced so far (it never repeats one)
    clock,        \* the last instant func.now() returned to an INSERT
    req,          \* in-flight POST /api/ai/analyze requests, per worker
    overlap,      \* sections on which two uploads have overlapped (history variable)
    resp,         \* response on its way to the client (NoResp if none)
    cc_current,   \* compute_comparisons called directly: current_entry
    cc_previous,  \*   previous_entries
    cc_result,    \*   its return value, NotRun before the call
    fn_call,      \* a function of progress_analyzer called directly: name and arguments
    fn_result     \*   what the call did, NotRun before the call

sysVars == <<sections, history, nextId, issued, clock, req, overlap, resp>>
ccVars == <<cc_current, cc_previous, cc_result>>
fnVars == <<fn_call, fn_result>>
vars == <<sections, history, nextId, issued, clock, req, overlap, resp,
          cc_current, cc_previous, cc_result, fn_call, fn_result>>

\* ------------------------------------------------------------------ bounds
MaxPrev == 2          \* previous entries handed to compute_comparisons
MaxEntries == 2       \* history rows ever created

Users == {1, 2}       \* users.id of the authenticated callers
Workers == {1, 2}     \* server workers, each handling one upload at a time

\* ------------------------------------------------- fixed-point resolution
SimScale == 1000      \* units per 1.0 of similarity
PctUnit == 1000       \* units per percentage point

\* ------------------------------------------------------------- embeddings
\* History.dino_embedding: None or a list of numbers.
NoEmb == [null |-> TRUE, v |-> <<>>]
Emb(v) == [null |-> FALSE, v |-> v]

\* ---------------------------------------------------------------- helpers
RECURSIVE SumSeq(_)
SumSeq(s) == IF s = <<>> THEN 0 ELSE Head(s) + SumSeq(Tail(s))

Dot(a, b) == SumSeq([i \in 1..Len(a) |-> a[i] * b[i]])

\* floor(sqrt(n)) for 0 <= n <= SimScale^2: the multiple of 32 below the
\* root first, then the remainder
ISqrtFrom(n, base) ==
    CHOOSE r \in base..(base + 31) : r * r <= n /\ (r + 1) * (r + 1) > n

ISqrt(n) ==
    ISqrtFrom(n, 32 * (CHOOSE a \in 0..(SimScale \div 32) :
                          (32 * a) * (32 * a) <= n
                          /\ (32 * (a + 1)) * (32 * (a + 1)) > n))

\* np.mean over a non-empty list, floored to the fixed-point grid
Mean(s) == SumSeq(s) \div Len(s)

\* ------------------------------------------------------- cosine_similarity
\* Returns [raised, value]: np.dot raises ValueError on 1-d arrays of
\* different length; empty input or zero norm gives 0.0.
CosineOf(e1, e2) ==
    IF Len(e1) = 0 \/ Len(e2) = 0
    THEN [raised |-> FALSE, value |-> 0]
    ELSE IF Len(e1) # Len(e2)
    THEN [raised |-> TRUE, value |-> 0]
    ELSE LET dot == Dot(e1, e2)
             n1 == Dot(e1, e1)
             n2 == Dot(e2, e2)
         IN IF n1 = 0 \/ n2 = 0
            THEN [raised |-> FALSE, value |-> 0]
            ELSE LET mag == ISqrt((dot * dot * SimScale * SimScale) \div (n1 * n2))
                 IN [raised |-> FALSE,
                     value |-> IF dot < 0 THEN 0 - mag ELSE mag]

\* The vectors that occur in the model, and cosine_similarity as a function
\* over pairs of them.
Vectors == {<<>>, <<0, 0, 0, 0>>, <<1, 0, 0, 0>>, <<3, 4, 0, 0>>, <<2, 4, 2, 1>>,
            <<-1, 0, 0, 0>>, <<1, 0>>}
CosineTable == [p \in Vectors \X Vectors |-> CosineOf(p[1], p[2])]

\* Variant: vectors of different length are cut to the shorter one
cosine_similarity_truncating(e1, e2) ==
    LET n == IF Len(e1) < Len(e2) THEN Len(e1) ELSE Len(e2)
    IN CosineOf(SubSeq(e1, 1, n), SubSeq(e2, 1, n))

\* Variant: no early return for an empty argument
cosine_similarity_no_empty_check(e1, e2) ==
    IF Len(e1) # Len(e2)
    THEN [raised |-> TRUE, value |-> 0]
    ELSE CosineOf(e1, e2)

cosine_similarity(e1, e2) == CosineTable[<<e1, e2>>]

\* ---------------------------------------------------- compute_healing_score
Clamp(lo, hi, x) == IF x < lo THEN lo ELSE IF x > hi THEN hi ELSE x

\* Variant: the two branches of the polarity flag exchanged
compute_healing_score_flipped(cur, prev, higher_similarity_means_better) ==
    LET sim == cosine_similarity(cur, prev)
        normalized2 == sim.value + SimScale
        score == IF higher_similarity_means_better
                 THEN ((2 * SimScale - normalized2) * 100 * PctUnit) \div (2 * SimScale)
                 ELSE (normalized2 * 100 * PctUnit) \div (2 * SimScale)
    IN [raised |-> sim.raised,
        value |-> Clamp(0, 100 * PctUnit, score)]

\* Variant: the similarity used as it is, in [-1, 1], and no clamping
compute_healing_score_unnormalized(cur, prev, higher_similarity_means_better) ==
    LET sim == cosine_similarity(cur, prev)
        score == IF higher_similarity_means_better
                 THEN (sim.value * 100 * PctUnit) \div SimScale
                 ELSE ((SimScale - sim.value) * 100 * PctUnit) \div SimScale
    IN [raised |-> sim.raised, value |-> score]

compute_healing_score(cur, prev, higher_similarity_means_better) ==
    LET sim == cosine_similarity(cur, prev)
        \* twice the normalized similarity (sim + 1) / 2, in SimScale units
        normalized2 == sim.value + SimScale
        score == IF higher_similarity_means_better
                 THEN (normalized2 * 100 * PctUnit) \div (2 * SimScale)
                 ELSE ((2 * SimScale - normalized2) * 100 * PctUnit) \div (2 * SimScale)
    IN [raised |-> sim.raised,
        value |-> Clamp(0, 100 * PctUnit, score)]

\* ------------------------------------------------------------ analyze_trend
TrendThreshold == 5

\* Variant: the thresholds themselves classified as a change
analyze_trend_inclusive(healing_scores) ==
    IF Len(healing_scores) < 2
    THEN "stable"
    ELSE LET changes == [i \in 1..(Len(healing_scores) - 1) |->
                            healing_scores[i + 1] - healing_scores[i]]
             total == SumSeq(changes)
             n == Len(changes)
         IN IF total >= TrendThreshold * PctUnit * n THEN "improving"
            ELSE IF total <= 0 - TrendThreshold * PctUnit * n THEN "worsening"
            ELSE "stable"

\* In exact arithmetic, which is what the floats give as long as no
\* difference and no running sum is rounded; analyze_trend_float below is
\* the same function with the rounding
analyze_trend(healing_scores) ==
    IF Len(healing_scores) < 2
    THEN "stable"
    ELSE LET changes == [i \in 1..(Len(healing_scores) - 1) |->
                            healing_scores[i + 1] - healing_scores[i]]
             \* np.mean(changes) > 5  <=>  sum(changes) > 5 * len(changes)
             total == SumSeq(changes)
             n == Len(changes)
         IN IF total > TrendThreshold * PctUnit * n THEN "improving"
            ELSE IF total < 0 - TrendThreshold * PctUnit * n THEN "worsening"
            ELSE "stable"

\* ------------------------------------------------------ compute_comparisons
\* A prediction record is [disease, confidence]; a corrupted stored record
\* may lack the 'disease' key.  'timestamp' is the stored History.timestamp.
\* Variant: only None counts as a missing embedding
HasEmbeddingNotNone(e) == ~e.null

\* Variant: an all-zero embedding counts as a missing one
HasEmbeddingNonZero(e) ==
    ~e.null /\ Len(e.v) > 0 /\ \E i \in DOMAIN e.v : e.v[i] # 0

HasEmbedding(e) == ~e.null /\ Len(e.v) > 0

\* One iteration of the loop over previous_entries.
\*   kind "skip"  : no embedding, continue (lines 241-243)
\*   kind "error" : an exception inside the try, caught and skipped;
\*                  'appended' tells whether healing_scores.append had
\*                  already run when it was raised
\*   kind "ok"    : a comparison appended
PairSkipped(prev_entry, kind, appended, healing) ==
    [kind |-> kind, appended |-> appended, healing |-> healing, sim |-> 0,
     top |-> "", id |-> prev_entry.id, ts |-> prev_entry.timestamp]

\* lines 249-273, given what the two calls at the top of the try returned
PairOutcome(prev_entry, similarity, healing_score) ==
    IF similarity.raised \/ healing_score.raised
    THEN PairSkipped(prev_entry, "error", FALSE, 0)
    ELSE IF Len(prev_entry.disease_predictions) > 0
            /\ "disease" \notin DOMAIN prev_entry.disease_predictions[1]
    THEN PairSkipped(prev_entry, "error", TRUE, healing_score.value)
    ELSE [kind |-> "ok", appended |-> TRUE,
          healing |-> healing_score.value,
          sim |-> similarity.value,
          top |-> IF Len(prev_entry.disease_predictions) > 0
                  THEN prev_entry.disease_predictions[1].disease
                  ELSE "Unknown",
          id |-> prev_entry.id, ts |-> prev_entry.timestamp]

ComparePair(current_embedding, prev_entry) ==
    IF ~HasEmbedding(prev_entry.dino_embedding)
    THEN PairSkipped(prev_entry, "skip", FALSE, 0)
    ELSE PairOutcome(prev_entry,
                     cosine_similarity(current_embedding.v,
                                       prev_entry.dino_embedding.v),
                     compute_healing_score(current_embedding.v,
                                           prev_entry.dino_embedding.v, FALSE))

IsOk(o) == o.kind = "ok"
WasAppended(o) == o.appended

\* the list 'comparisons' after the loop
ComparisonsOf(oks) ==
    [i \in 1..Len(oks) |->
        [previous_entry_id |-> oks[i].id,
         previous_timestamp |-> oks[i].ts,
         previous_top_disease |-> oks[i].top,
         current_similarity |-> oks[i].sim,
         healing_percentage |-> oks[i].healing]]

\* line 275, over the list 'healing_scores' after the loop
AverageOf(appended) ==
    IF Len(appended) > 0
    THEN Mean([i \in 1..Len(appended) |-> appended[i].healing])
    ELSE 0

\* lines 275-277, given the outcome of every iteration
CompareAll(outcomes) ==
    [raised |-> FALSE,
     comparisons |-> ComparisonsOf(SelectSeq(outcomes, IsOk)),
     average_healing_score |-> AverageOf(SelectSeq(outcomes, WasAppended))]

PairOutcomes(current_embedding, previous_entries) ==
    [i \in 1..Len(previous_entries) |->
        ComparePair(current_embedding, previous_entries[i])]

AnyPairRaised(outcomes) == \E i \in DOMAIN outcomes : outcomes[i].kind = "error"

\* Variant: no try/except around the loop body, the first failing pair
\* ends the call
compute_comparisons_no_try(current_entry, previous_entries) ==
    IF ~HasEmbedding(current_entry.dino_embedding)
    THEN [raised |-> FALSE, comparisons |-> <<>>, average_healing_score |-> 0]
    ELSE IF AnyPairRaised(PairOutcomes(current_entry.dino_embedding, previous_entries))
    THEN [raised |-> TRUE, comparisons |-> <<>>, average_healing_score |-> 0]
    ELSE CompareAll(PairOutcomes(current_entry.dino_embedding, previous_entries))

\* Variant: no early return for a current entry without an embedding
compute_comparisons_unguarded(current_entry, previous_entries) ==
    CompareAll(PairOutcomes(current_entry.dino_embedding, previous_entries))

\* Returns [raised, comparisons, average_healing_score].  With embeddings
\* that are None or lists of numbers no statement outside the try raises,
\* so 'raised' is FALSE on every path.
compute_comparisons(current_entry, previous_entries) ==
    IF ~HasEmbedding(current_entry.dino_embedding)
    THEN [raised |-> FALSE, comparisons |-> <<>>, average_healing_score |-> 0]
    ELSE CompareAll(PairOutcomes(current_entry.dino_embedding, previous_entries))

\* =====================================================================
\* Storage layer (crud.py)
\* =====================================================================
NoSection == ""       \* section_id None or the empty form field
NoScore == -1         \* healing_score None
NoNotes == "null"     \* user_notes None

\* Texts.  A narrative is one of: None, the text Gemini returned, the canned
\* message chat_completion substitutes for a blocked answer, the default of
\* dict.get, or the templated fallback of progress_review, which embeds the
\* average healing score and the trend.
NoText == [kind |-> "null", avg |-> 0, trend |-> ""]
LlmText == [kind |-> "llm", avg |-> 0, trend |-> ""]
BlockedText == [kind |-> "blocked_fallback", avg |-> 0, trend |-> ""]
UnableText == [kind |-> "unable", avg |-> 0, trend |-> ""]
TemplateText(avg, trend) == [kind |-> "template", avg |-> avg, trend |-> trend]

SectionIds == {"s1"}   \* the uuid4 strings of the model
SectionExists(secs, sid) == sid \in DOMAIN secs

\* crud.get_section_by_id: the row or None; callers test `not section`
get_section_by_id(secs, sid) ==
    IF sid \in DOMAIN secs THEN {secs[sid]} ELSE {}

\* crud.create_lesion_section
create_lesion_section(secs, sid, user_id, section_name, description, now) ==
    [x \in DOMAIN secs \cup {sid} |->
        IF x = sid
        THEN [section_id |-> sid, user_id |-> user_id,
              section_name |-> section_name, description |-> description,
              created_at |-> now]
        ELSE secs[x]]

\* crud.delete_lesion_section: db.delete(section) cascades over
\* LesionSection.history_entries (cascade="all, delete-orphan")
delete_lesion_section_rows(hist, sid) ==
    [h \in {x \in DOMAIN hist : hist[x].section_id # sid} |-> hist[h]]

delete_lesion_section_sections(secs, sid) ==
    [x \in DOMAIN secs \ {sid} |-> secs[x]]

\* crud.save_history_entry_enhanced: one INSERT; id is the autoincrement,
\* timestamp the server default now()
save_history_entry_enhanced(hist, id, now, user_id, predictions, embedding, section_id, gemini_response, healing_score, is_baseline, user_notes) ==
    [h \in DOMAIN hist \cup {id} |->
        IF h = id
        THEN [id |-> id, user_id |-> user_id, section_id |-> section_id,
              timestamp |-> now, disease_predictions |-> predictions,
              dino_embedding |-> embedding, gemini_response |-> gemini_response,
              healing_score |-> healing_score, is_baseline |-> is_baseline,
              user_notes |-> user_notes]
        ELSE hist[h]]

\* crud.get_section_history: ORDER BY timestamp DESC OFFSET skip LIMIT limit.
\* Rows with equal timestamps come back in an order the database chooses,
\* so the result is one of a set of sequences.
SectionRows(hist, sid) == {h \in DOMAIN hist : hist[h].section_id = sid}

\* the arrangements of rows that all carry the same timestamp
RECURSIVE AnyOrder(_)
AnyOrder(ids) ==
    IF ids = {}
    THEN {<<>>}
    ELSE UNION {{<<h>> \o o : o \in AnyOrder(ids \ {h})} : h \in ids}

TimestampsOf(hist, ids) == {hist[h].timestamp : h \in ids}

\* a timestamp with half of the distinct timestamps above it
MiddleTimestamp(stamps) ==
    CHOOSE t \in stamps :
        Cardinality({u \in stamps : u > t}) = Cardinality(stamps) \div 2

\* every arrangement of the rows in which timestamps never increase: the
\* rows above the middle timestamp in such an arrangement, then the others
RECURSIVE OrderedByTimestampDesc(_, _)
OrderedByTimestampDesc(hist, ids) ==
    IF Cardinality(TimestampsOf(hist, ids)) <= 1
    THEN AnyOrder(ids)
    ELSE LET t == MiddleTimestamp(TimestampsOf(hist, ids))
         IN {newer \o older :
                newer \in OrderedByTimestampDesc(
                              hist, {h \in ids : hist[h].timestamp > t}),
                older \in OrderedByTimestampDesc(
                              hist, {h \in ids : hist[h].timestamp <= t})}

Page(o, skip, limit) ==
    LET n == IF Len(o) - skip < 0 THEN 0
             ELSE IF Len(o) - skip > limit THEN limit ELSE Len(o) - skip
    IN [i \in 1..n |-> o[skip + i]]

get_section_history(hist, sid, skip, limit) ==
    {[i \in DOMAIN Page(o, skip, limit) |-> hist[Page(o, skip, limit)[i]]] :
        o \in OrderedByTimestampDesc(hist, SectionRows(hist, sid))}

\* crud.get_baseline_entry: is_baseline rows ORDER BY timestamp, first one;
\* the set of ids the query may return (empty set: None)
get_baseline_entry(hist, sid) ==
    LET base == {h \in SectionRows(hist, sid) : hist[h].is_baseline}
    IN {h \in base : \A g \in base : hist[h].timestamp <= hist[g].timestamp}

\* Variant: the UPDATE also refreshes the row's timestamp
update_history_touching_timestamp(hist, history_id, gemini_response, healing_score) ==
    IF history_id \notin DOMAIN hist THEN hist
    ELSE [hist EXCEPT ![history_id] =
            [@ EXCEPT !.gemini_response = gemini_response,
                      !.healing_score = IF healing_score # NoScore
                                        THEN healing_score ELSE @,
                      !.timestamp = @ + 1]]

\* Variant: the UPDATE is not restricted to one row, it rewrites every
\* entry of the row's section
update_history_whole_section(hist, history_id, gemini_response, healing_score) ==
    IF history_id \notin DOMAIN hist THEN hist
    ELSE [h \in DOMAIN hist |->
            IF hist[h].section_id = hist[history_id].section_id
            THEN [hist[h] EXCEPT !.gemini_response = gemini_response,
                                 !.healing_score = IF healing_score # NoScore
                                                   THEN healing_score ELSE @]
            ELSE hist[h]]

\* Variant: the UPDATE stores the score and leaves the narrative alone
update_history_score_only(hist, history_id, gemini_response, healing_score) ==
    IF history_id \notin DOMAIN hist THEN hist
    ELSE [hist EXCEPT ![history_id] =
            [@ EXCEPT !.healing_score = IF healing_score # NoScore
                                        THEN healing_score ELSE @]]

\* Variant: the UPDATE is skipped when there is no narrative to store
update_history_text_required(hist, history_id, gemini_response, healing_score) ==
    IF history_id \notin DOMAIN hist \/ gemini_response = NoText THEN hist
    ELSE [hist EXCEPT ![history_id] =
            [@ EXCEPT !.gemini_response = gemini_response,
                      !.healing_score = IF healing_score # NoScore
                                        THEN healing_score ELSE @]]

\* crud.update_history_gemini_response
update_history_gemini_response(hist, history_id, gemini_response, healing_score) ==
    IF history_id \notin DOMAIN hist THEN hist
    ELSE [hist EXCEPT ![history_id] =
            [@ EXCEPT !.gemini_response = gemini_response,
                      !.healing_score = IF healing_score # NoScore
                                        THEN healing_score ELSE @]]

\* =====================================================================
\* Narrative generator (ai_client.py)
\* =====================================================================
\* What the Gemini call does: "ok" returns text, "blocked" makes
\* response.text raise ValueError, "error" is any exception of the call.
LlmOutcomes == {"ok", "blocked", "error"}

\* AIClient.chat_completion: returns a dict in every case; the outer
\* `except Exception` turns a failed call into {"error": ..., "response": None}
chat_completion(outcome) ==
    IF outcome = "ok"
    THEN [response |-> LlmText, finish_reason |-> "stop"]
    ELSE IF outcome = "blocked"
    THEN [response |-> BlockedText, finish_reason |-> "safety_block"]
    ELSE [error |-> "exception", response |-> NoText]

\* get_ai_response -> ask_about_animal -> chat_completion; [raised, value]
get_ai_response(outcome) == [raised |-> FALSE, value |-> chat_completion(outcome)]

\* dict.get(key, default) for key "response"
GetResponse(d, default) == IF "response" \in DOMAIN d THEN d.response ELSE default

\* progress_review lines 607-619: the narrative shown to the user
DoctorSummary(ai, avg_healing_score, trend) ==
    IF ai.raised
    THEN TemplateText(avg_healing_score, trend)
    ELSE GetResponse(ai.value, UnableText)

\* =====================================================================
\* Request handlers (main.py)
\* =====================================================================
\* analyze_and_extract on a readable image: top predictions (always with a
\* 'disease' key) and an embedding of the model's dimension, or None when
\* get_image_embedding failed.
Predictions == <<[disease |-> "Eczema", confidence |-> 950]>>
ImageEmbeddings == {NoEmb, Emb(<<1, 0, 0, 0>>), Emb(<<3, 4, 0, 0>>)}
Notes == {"itchy"}
SectionNames == {"arm"}

IdleReq == [pc |-> "idle", user |-> 0, section_id |-> NoSection,
            existing_count |-> 0, is_baseline |-> FALSE]
NoResp == [kind |-> "none"]
ErrorResp(status) == [kind |-> "error", status |-> status]
NotRun == [kind |-> "notrun"]
NoCall == [fn |-> "none"]

InFlight == {w \in Workers : req[w].pc = "checked"}

\* Variant: only a missing section is refused, the owner is not compared
NotOwnedMissingOnly(secs, sid, user) == get_section_by_id(secs, sid) = {}

\* Variant: no ownership check at all
NotOwnedNever(secs, sid, user) == FALSE

\* `not section or section.user_id != current_user.id`
NotOwned(secs, sid, user) ==
    \A sec \in get_section_by_id(secs, sid) : sec.user_id # user

\* Variant: the emptiness test off by one
BaselineDecisionOffByOne(existing_entries) == Len(existing_entries) <= 1

\* main.py line 436
BaselineDecision(existing_entries) == Len(existing_entries) = 0

\* POST /api/sections/create
create_section(u, name, description) ==
    /\ resp = NoResp
    /\ \E section_id \in SectionIds \ issued :
         /\ sections' = create_lesion_section(sections, section_id, u, name,
                                              description, clock)
         /\ issued' = issued \cup {section_id}
         /\ resp' = [kind |-> "section", op |-> "create",
                     section_id |-> section_id]
    /\ UNCHANGED <<history, nextId, clock, req, overlap, ccVars, fnVars>>

\* DELETE /api/sections/{section_id}
delete_section(u, sid) ==
    /\ resp = NoResp
    /\ IF NotOwned(sections, sid, u)
       THEN /\ resp' = ErrorResp(404)
            /\ UNCHANGED <<sections, history>>
       ELSE /\ history' = delete_lesion_section_rows(history, sid)
            /\ sections' = delete_lesion_section_sections(sections, sid)
            /\ resp' = [kind |-> "section", op |-> "delete", section_id |-> sid]
    /\ UNCHANGED <<nextId, issued, clock, req, overlap, ccVars, fnVars>>

\* GET /api/sections/{section_id}
get_section(u, sid) ==
    /\ resp = NoResp
    /\ resp' = IF NotOwned(sections, sid, u)
               THEN ErrorResp(404)
               ELSE [kind |-> "section", op |-> "get", section_id |-> sid]
    /\ UNCHANGED <<sections, history, nextId, issued, clock, req, overlap,
                   ccVars, fnVars>>

\* GET /api/sections/{section_id}/history with the default skip and limit:
\* the ids of the summaries, in the order the query returned the rows
HistoryLimit == 50

get_section_history_endpoint(u, sid) ==
    /\ resp = NoResp
    /\ IF NotOwned(sections, sid, u)
       THEN resp' = ErrorResp(404)
       ELSE \E entries \in get_section_history(history, sid, 0, HistoryLimit) :
               resp' = [kind |-> "history", section_id |-> sid,
                        total_entries |-> Len(entries),
                        entries |-> [i \in DOMAIN entries |-> entries[i].id]]
    /\ UNCHANGED <<sections, history, nextId, issued, clock, req, overlap,
                   ccVars, fnVars>>

\* POST /api/ai/analyze, lines 427-439: the locals after the baseline
\* check, one value per result of the existing-entries query
BaselineOptions(hist, sid) ==
    IF sid # NoSection
    THEN {[existing_count |-> Len(existing_entries),
           is_baseline |-> BaselineDecision(existing_entries)] :
            existing_entries \in get_section_history(hist, sid, 0, 1)}
    ELSE {[existing_count |-> 0, is_baseline |-> FALSE]}

\* POST /api/ai/analyze, lines 441-492, given the analysis outcome:
\* the INSERT and the response
AnalyzeOutcomes == {"analyze_fail", "save_fail", "ok"}

\* server_default=func.now(): the instant of the INSERT, at the resolution
\* of the database clock.  It is the instant of the previous INSERT or a
\* later one; timestamps are only ever compared with each other.
Now == {clock, clock + 1}

\* Variant: the baseline flag decided again inside the INSERT's transaction
SaveAnalysisRechecked(outcome, user, sid, is_baseline) ==
    IF outcome # "ok"
    THEN /\ resp' = ErrorResp(500)
         /\ UNCHANGED <<history, nextId, clock>>
    ELSE \E embedding \in ImageEmbeddings, user_notes \in Notes, now \in Now :
         /\ history' = save_history_entry_enhanced(
                           history, nextId, now, user, Predictions,
                           embedding, sid, NoText, NoScore,
                           sid # NoSection /\ SectionRows(history, sid) = {},
                           user_notes)
         /\ clock' = now
         /\ nextId' = nextId + 1
         /\ resp' = [kind |-> "analyze", history_id |-> nextId,
                     section_id |-> sid,
                     is_baseline |-> sid # NoSection /\ SectionRows(history, sid) = {}]

\* Variant: a failing save has written its row before it fails
SaveAnalysisRowBeforeFailure(outcome, user, sid, is_baseline) ==
    IF outcome = "analyze_fail"
    THEN /\ resp' = ErrorResp(500)
         /\ UNCHANGED <<history, nextId, clock>>
    ELSE \E embedding \in ImageEmbeddings, user_notes \in Notes, now \in Now :
         /\ history' = save_history_entry_enhanced(
                           history, nextId, now, user, Predictions,
                           embedding, sid, NoText, NoScore,
                           is_baseline, user_notes)
         /\ clock' = now
         /\ nextId' = nextId + 1
         /\ resp' = IF outcome = "save_fail"
                    THEN ErrorResp(500)
                    ELSE [kind |-> "analyze", history_id |-> nextId,
                          section_id |-> sid, is_baseline |-> is_baseline]

SaveAnalysis(outcome, user, sid, is_baseline) ==
    IF outcome # "ok"
    THEN /\ resp' = ErrorResp(500)
         /\ UNCHANGED <<history, nextId, clock>>
    ELSE \E embedding \in ImageEmbeddings, user_notes \in Notes, now \in Now :
         /\ history' = save_history_entry_enhanced(
                           history, nextId, now, user, Predictions,
                           embedding, sid, NoText, NoScore,
                           is_baseline, user_notes)
         /\ clock' = now
         /\ nextId' = nextId + 1
         /\ resp' = [kind |-> "analyze", history_id |-> nextId,
                     section_id |-> sid, is_baseline |-> is_baseline]

\* POST /api/ai/analyze handled without interruption: the handler is an
\* `async def` with no await, so one server process runs it to completion
analyze_with_auto_save(u, sid, outcome) ==
    /\ resp = NoResp
    /\ nextId <= MaxEntries
    /\ IF sid # NoSection /\ NotOwned(sections, sid, u)
       THEN /\ resp' = ErrorResp(404)
            /\ UNCHANGED <<history, nextId, clock>>
       ELSE \E b \in BaselineOptions(history, sid) :
               SaveAnalysis(outcome, u, sid, b.is_baseline)
    /\ UNCHANGED <<sections, issued, req, overlap, ccVars, fnVars>>

\* The same handler on a server with several worker processes sharing the
\* database: other workers' statements run between its SELECT (AnalyzeCheck)
\* and its INSERT (AnalyzeSave).
AnalyzeCheck(w, u, sid) ==
    /\ resp = NoResp
    /\ req[w].pc = "idle"
    /\ nextId + Cardinality(InFlight) <= MaxEntries
    /\ IF sid # NoSection /\ NotOwned(sections, sid, u)
       THEN /\ resp' = ErrorResp(404)
            /\ UNCHANGED <<req, overlap>>
       ELSE /\ \E b \in BaselineOptions(history, sid) :
                  req' = [req EXCEPT ![w] =
                            [pc |-> "checked", user |-> u, section_id |-> sid,
                             existing_count |-> b.existing_count,
                             is_baseline |-> b.is_baseline]]
            /\ overlap' = IF sid # NoSection
                             /\ \E v \in InFlight : req[v].section_id = sid
                          THEN overlap \cup {sid} ELSE overlap
            /\ resp' = NoResp
    /\ UNCHANGED <<sections, history, nextId, issued, clock, ccVars, fnVars>>

AnalyzeSave(w, outcome) ==
    /\ resp = NoResp
    /\ req[w].pc = "checked"
    /\ req' = [req EXCEPT ![w] = IdleReq]
    /\ SaveAnalysis(outcome, req[w].user, req[w].section_id, req[w].is_baseline)
    /\ UNCHANGED <<sections, issued, overlap, ccVars, fnVars>>

\* PUT /api/sections/{section_id}.  An argument of update_lesion_section is
\* None, a string, or (what main.py line 362 passes positionally as
\* section_name) the LesionSectionUpdate object itself.
NoArg == [tag |-> "none"]
StrArg(str) == [tag |-> "str", s |-> str]
ObjArg(name, description) == [tag |-> "obj", section_name |-> name,
                              description |-> description]

\* crud.update_lesion_section on an existing row: [raised, row]; binding a
\* value that is not a string to a String/Text column makes db.commit() raise
update_lesion_section(row, section_name, description) ==
    IF section_name.tag = "obj" \/ description.tag = "obj"
    THEN [raised |-> TRUE, row |-> row]
    ELSE [raised |-> FALSE,
          row |-> [row EXCEPT
                     !.section_name = IF section_name.tag = "str"
                                      THEN section_name.s ELSE @,
                     !.description = IF description.tag = "str"
                                     THEN description.s ELSE @]]

UpdateArgs == {NoArg, StrArg("face")}

update_section(u, sid, name, description) ==
    /\ resp = NoResp
    /\ IF NotOwned(sections, sid, u)
       THEN /\ resp' = ErrorResp(404)
            /\ UNCHANGED sections
       ELSE LET r == update_lesion_section(sections[sid],
                                           ObjArg(name, description), NoArg)
            IN IF r.raised
               THEN /\ resp' = ErrorResp(500)
                    /\ UNCHANGED sections
               ELSE /\ sections' = [sections EXCEPT ![sid] = r.row]
                    /\ resp' = [kind |-> "section", op |-> "update",
                                section_id |-> sid]
    /\ UNCHANGED <<history, nextId, issued, clock, req, overlap, ccVars, fnVars>>

\* POST /api/sections/{section_id}/progress-review
ReviewLimit == 100

\* generate_progress_prompt reads pred['disease'] and pred['confidence'] of
\* every prediction of the current entry and raises on a record without them
PromptRaises(current_entry) ==
    \E i \in DOMAIN current_entry.disease_predictions :
        {"disease", "confidence"} \ DOMAIN current_entry.disease_predictions[i] # {}

\* Variant: the scores are preceded by the neutral score 50
TrendOfFromNeutral(healing_scores) ==
    IF Len(healing_scores) > 0
    THEN analyze_trend(<<50 * PctUnit>> \o healing_scores)
    ELSE "stable"

\* lines 586-588: the scores handed to analyze_trend and the trend
TrendOf(healing_scores) ==
    IF Len(healing_scores) > 0 THEN analyze_trend(healing_scores) ELSE "stable"

HealingScoresOf(comparisons) ==
    [i \in DOMAIN comparisons |-> comparisons[i].healing_percentage]

\* lines 568-588, given what compute_comparisons returned
ReviewNumbersOf(current_entry, cc) ==
    [raised |-> cc.raised,
     latest_entry_id |-> current_entry.id,
     comparisons |-> cc.comparisons,
     average_healing_score |-> cc.average_healing_score,
     trend |-> TrendOf(HealingScoresOf(cc.comparisons))]

\* lines 568-588: the comparison and the trend for one result of the
\* history query
ReviewNumbers(all_entries) ==
    ReviewNumbersOf(all_entries[1],
                    compute_comparisons(all_entries[1], Tail(all_entries)))

\* lines 607-645: the response for one behaviour of the Gemini call and one
\* outcome of the UPDATE
ReviewResponse(sid, all_entries, nums, llm, db_ok) ==
    [kind |-> "review", section_id |-> sid,
     latest_entry_id |-> nums.latest_entry_id,
     total_entries |-> Len(all_entries),
     comparisons |-> nums.comparisons,
     average_healing_score |-> nums.average_healing_score,
     doctor_summary |-> DoctorSummary(get_ai_response(llm),
                                      nums.average_healing_score, nums.trend),
     trend |-> nums.trend,
     \* what the environment did during the request (not part of the payload)
     llm |-> llm, db_ok |-> db_ok]

\* lines 621-645: the UPDATE (its failure is swallowed) and the response
ReviewStore(r) ==
    /\ resp' = r
    /\ history' = IF r.db_ok
                  THEN update_history_gemini_response(
                           history, r.latest_entry_id,
                           r.doctor_summary, r.average_healing_score)
                  ELSE history

\* lines 572-645, given the comparison and the trend
ReviewRun(sid, all_entries, nums) ==
    IF nums.raised
    THEN /\ resp' = ErrorResp(500)
         /\ UNCHANGED history
    ELSE \E llm \in LlmOutcomes, db_ok \in BOOLEAN :
            ReviewStore(ReviewResponse(sid, all_entries, nums, llm, db_ok))

progress_review(u, sid) ==
    /\ resp = NoResp
    /\ IF NotOwned(sections, sid, u)
       THEN /\ resp' = ErrorResp(404)
            /\ UNCHANGED history
       ELSE \E all_entries \in get_section_history(history, sid, 0, ReviewLimit) :
              IF Len(all_entries) < 2
              THEN /\ resp' = ErrorResp(400)
                   /\ UNCHANGED history
              ELSE IF PromptRaises(all_entries[1])
              THEN /\ resp' = ErrorResp(500)
                   /\ UNCHANGED history
              ELSE ReviewRun(sid, all_entries, ReviewNumbers(all_entries))
    /\ UNCHANGED <<sections, nextId, issued, clock, req, overlap, ccVars, fnVars>>

\* The response leaves the server; the next request is read after that.
SendResponse ==
    /\ resp # NoResp
    /\ resp' = NoResp
    /\ UNCHANGED <<sections, history, nextId, issued, clock, req, overlap, ccVars, fnVars>>

\* ---------------------------------------------------------------- system
EmptyTable == [x \in {} |-> 0]

Init ==
    /\ sections = EmptyTable
    /\ history = EmptyTable
    /\ nextId = 1
    /\ issued = {}
    /\ clock = 0
    /\ req = [w \in Workers |-> IdleReq]
    /\ overlap = {}
    /\ resp = NoResp
    /\ cc_current = NotRun
    /\ cc_previous = <<>>
    /\ cc_result = NotRun
    /\ fn_call = NoCall
    /\ fn_result = NotRun

\* One server process: every request is handled to completion.
Next ==
    \/ \E u \in Users, n \in SectionNames : create_section(u, n, NoNotes)
    \/ \E u \in Users, sid \in SectionIds, n \in UpdateArgs, d \in UpdateArgs :
          update_section(u, sid, n, d)
    \/ \E u \in Users, sid \in SectionIds : delete_section(u, sid)
    \/ \E u \in Users, sid \in SectionIds \cup {NoSection}, o \in AnalyzeOutcomes :
          analyze_with_auto_save(u, sid, o)
    \/ \E u \in Users, sid \in SectionIds : progress_review(u, sid)
    \/ \E u \in Users, sid \in SectionIds : get_section(u, sid)
    \/ \E u \in Users, sid \in SectionIds : get_section_history_endpoint(u, sid)
    \/ SendResponse

Spec == Init /\ [][Next]_vars

\* Several worker processes on one database: uploads interleave with each
\* other and with section creation and deletion.
NextWorkers ==
    \/ \E u \in Users, n \in SectionNames : create_section(u, n, NoNotes)
    \/ \E u \in Users, sid \in SectionIds : delete_section(u, sid)
    \/ \E w \in Workers, u \in Users, sid \in SectionIds \cup {NoSection} :
          AnalyzeCheck(w, u, sid)
    \/ \E w \in Workers, o \in AnalyzeOutcomes : AnalyzeSave(w, o)
    \/ SendResponse

SpecWorkers == Init /\ [][NextWorkers]_vars

\* =====================================================================
\* compute_comparisons called on its own
\* =====================================================================
\* The arguments: entries as progress_review hands them over (newest first,
\* ids and timestamps descending), with embeddings that are None, empty,
\* all-zero, of the current entry's length or of another length, and top
\* predictions that are absent, well-formed or lacking the 'disease' key.
CurrentEmbeddings ==
    {NoEmb, Emb(<<>>), Emb(<<0, 0, 0, 0>>), Emb(<<1, 0, 0, 0>>), Emb(<<1, 0>>)}
PrevEmbeddings == {NoEmb} \cup {Emb(v) : v \in Vectors}
PrevPredictions == {<<>>, Predictions, <<[confidence |-> 950]>>}
PrevKinds == PrevEmbeddings \X PrevPredictions

SeqsUpTo(S, n) == UNION {[1..k -> S] : k \in 0..n}

CCEntry(id, embedding, predictions) ==
    [id |-> id, timestamp |-> id, disease_predictions |-> predictions,
     dino_embedding |-> embedding]

InitCC ==
    /\ sections = EmptyTable
    /\ history = EmptyTable
    /\ nextId = 1
    /\ issued = {}
    /\ clock = 0
    /\ req = [w \in Workers |-> IdleReq]
    /\ overlap = {}
    /\ resp = NoResp
    /\ \E cur \in CurrentEmbeddings, ks \in SeqsUpTo(PrevKinds, MaxPrev) :
         /\ cc_current = CCEntry(Len(ks) + 1, cur, Predictions)
         /\ cc_previous = [i \in 1..Len(ks) |->
                             CCEntry(Len(ks) + 1 - i, ks[i][1], ks[i][2])]
    /\ cc_result = NotRun
    /\ fn_call = NoCall
    /\ fn_result = NotRun

CallComputeComparisons ==
    /\ cc_result = NotRun
    /\ LET r == compute_comparisons(cc_current, cc_previous)
       IN cc_result' = [kind |-> IF r.raised THEN "raised" ELSE "returned",
                        comparisons |-> r.comparisons,
                        average_healing_score |-> r.average_healing_score]
    /\ UNCHANGED <<sysVars, cc_current, cc_previous, fnVars>>

NextCC == CallComputeComparisons

SpecCC == InitCC /\ [][NextCC]_vars

\* =====================================================================
\* cosine_similarity, compute_healing_score and analyze_trend called on
\* their own
\* =====================================================================
MaxScores == 3        \* healing scores handed to analyze_trend

\* Healing percentages (in units of 1/PctUnit): the spec's examples
\* [10,20,30], [30,20,10], [50,52,49], and steps of exactly 5 and of 5.001
ScoreValues == {0, 10000, 15000, 15001, 20000, 30000, 49000, 50000, 52000}

TrendCalls ==
    {[fn |-> "analyze_trend", healing_scores |-> s] :
        s \in SeqsUpTo(ScoreValues, MaxScores)}

CosineCalls ==
    {[fn |-> "cosine_similarity", embedding1 |-> p[1], embedding2 |-> p[2]] :
        p \in Vectors \X Vectors}

HealingCalls ==
    {[fn |-> "compute_healing_score", current_embedding |-> p[1],
      previous_embedding |-> p[2], higher_similarity_means_better |-> p[3]] :
        p \in Vectors \X Vectors \X BOOLEAN}

InitFn ==
    /\ sections = EmptyTable
    /\ history = EmptyTable
    /\ nextId = 1
    /\ issued = {}
    /\ clock = 0
    /\ req = [w \in Workers |-> IdleReq]
    /\ overlap = {}
    /\ resp = NoResp
    /\ cc_current = NotRun
    /\ cc_previous = <<>>
    /\ cc_result = NotRun
    /\ fn_call \in TrendCalls \cup CosineCalls \cup HealingCalls
    /\ fn_result = NotRun

FnResult(r) ==
    [kind |-> IF r.raised THEN "raised" ELSE "returned", value |-> r.value]

CallAnalyzeTrend ==
    /\ fn_result = NotRun
    /\ fn_call.fn = "analyze_trend"
    /\ fn_result' = [kind |-> "returned",
                     value |-> analyze_trend(fn_call.healing_scores)]
    /\ UNCHANGED <<sysVars, ccVars, fn_call>>

CallCosineSimilarity ==
    /\ fn_result = NotRun
    /\ fn_call.fn = "cosine_similarity"
    /\ fn_result' = FnResult(cosine_similarity(fn_call.embedding1,
                                               fn_call.embedding2))
    /\ UNCHANGED <<sysVars, ccVars, fn_call>>

CallComputeHealingScore ==
    /\ fn_result = NotRun
    /\ fn_call.fn = "compute_healing_score"
    /\ fn_result' = FnResult(compute_healing_score(
                                 fn_call.current_embedding,
                                 fn_call.previous_embedding,
                                 fn_call.higher_similarity_means_better))
    /\ UNCHANGED <<sysVars, ccVars, fn_call>>

NextFn ==
    \/ CallAnalyzeTrend
    \/ CallCosineSimilarity
    \/ CallComputeHealingScore

SpecFn == InitFn /\ [][NextFn]_vars

\* =====================================================================
\* analyze_trend in floating-point arithmetic
\* =====================================================================
\* The scores are Python floats.  A binary float carries a significand of
\* MantissaBits bits (53 in the build); the result of every subtraction,
\* addition and division is rounded to the nearest such number, a tie going
\* to the even significand.  Here the numbers are whole percentages.
MantissaBits == 4

Abs(x) == IF x < 0 THEN 0 - x ELSE x

\* The distance between neighbouring floats around a magnitude m > 0
Ulp(m) ==
    IF m < 2^MantissaBits THEN 1
    ELSE 2^((CHOOSE e \in MantissaBits..30 : 2^e <= m /\ m < 2^(e + 1))
            - MantissaBits + 1)

RoundHalfEven(m, q) ==
    LET lo == (m \div q) * q
    IN IF 2 * (m - lo) < q THEN lo
       ELSE IF 2 * (m - lo) > q THEN lo + q
       ELSE IF (m \div q) % 2 = 0 THEN lo ELSE lo + q

Fl(x) ==
    IF x = 0 THEN 0
    ELSE IF x < 0 THEN 0 - RoundHalfEven(0 - x, Ulp(0 - x))
    ELSE RoundHalfEven(x, Ulp(x))

\* np.mean adds the changes from left to right
RECURSIVE FlSum(_, _)
FlSum(s, n) == IF n = 0 THEN 0 ELSE Fl(FlSum(s, n - 1) + s[n])

\* `np.mean(changes) > 5`: the sum divided by the count, rounded.  5 has an
\* even significand and its upper neighbour is 5 + 2^(3 - MantissaBits), so
\* the rounded quotient is above 5 exactly when total/n is above the
\* midpoint 5 + 2^(2 - MantissaBits)
MeanAboveThreshold(total, n) ==
    total * 2^(MantissaBits - 2)
        > n * (TrendThreshold * 2^(MantissaBits - 2) + 1)

\* Variant: the sum of the changes is divided by the number of scores
analyze_trend_float_per_score(healing_scores) ==
    IF Len(healing_scores) < 2
    THEN "stable"
    ELSE LET changes == [i \in 1..(Len(healing_scores) - 1) |->
                            Fl(healing_scores[i + 1] - healing_scores[i])]
             total == FlSum(changes, Len(changes))
             n == Len(healing_scores)
         IN IF MeanAboveThreshold(total, n) THEN "improving"
            ELSE IF MeanAboveThreshold(0 - total, n) THEN "worsening"
            ELSE "stable"

analyze_trend_float(healing_scores) ==
    IF Len(healing_scores) < 2
    THEN "stable"
    ELSE LET changes == [i \in 1..(Len(healing_scores) - 1) |->
                            Fl(healing_scores[i + 1] - healing_scores[i])]
             total == FlSum(changes, Len(changes))
             n == Len(changes)
         IN IF MeanAboveThreshold(total, n) THEN "improving"
            ELSE IF MeanAboveThreshold(0 - total, n) THEN "worsening"
            ELSE "stable"

\* Healing percentages that are floats: whole percentages from 0 to 100
\* whose significand fits
FloatScores == {x \in {0, 1, 2, 6, 11, 12, 16, 48, 64, 96} : Fl(x) = x}

FloatTrendCalls ==
    {[fn |-> "analyze_trend", healing_scores |-> s] :
        s \in SeqsUpTo(FloatScores, MaxScores)}

InitFloat ==
    /\ sections = EmptyTable
    /\ history = EmptyTable
    /\ nextId = 1
    /\ issued = {}
    /\ clock = 0
    /\ req = [w \in Workers |-> IdleReq]
    /\ overlap = {}
    /\ resp = NoResp
    /\ cc_current = NotRun
    /\ cc_previous = <<>>
    /\ cc_result = NotRun
    /\ fn_call \in FloatTrendCalls
    /\ fn_result = NotRun

CallAnalyzeTrendFloat ==
    /\ fn_result = NotRun
    /\ fn_call.fn = "analyze_trend"
    /\ fn_result' = [kind |-> "returned",
                     value |-> analyze_trend_float(fn_call.healing_scores)]
    /\ UNCHANGED <<sysVars, ccVars, fn_call>>

NextFloat == CallAnalyzeTrendFloat

SpecFloat == InitFloat /\ [][NextFloat]_vars

\* =====================================================================
\* progress_review on a section that already holds several entries
\* =====================================================================
MaxHistory == 3       \* entries of the section under review

\* The timestamps of successive INSERTs: each is later than the previous
\* one, except that the last upload may have come within the clock's
\* resolution of the one before it
Stamps(n) ==
    {t \in [1..n -> 1..n] :
        /\ t[1] = 1
        /\ \A i \in 1..(n - 2) : t[i + 1] = t[i] + 1
        /\ t[n] \in {t[n - 1], t[n - 1] + 1}}

\* The history table after user 1 uploaded the images one after the other
\* into section "s1": row h is the row the h-th INSERT wrote
Uploaded(embeddings, stamps, n) ==
    [h \in 1..n |->
        save_history_entry_enhanced(
            EmptyTable, h, stamps[h], 1, Predictions, embeddings[h], "s1",
            NoText, NoScore, BaselineDecision(SubSeq(embeddings, 1, h - 1)),
            "itchy")[h]]

InitReview ==
    /\ sections = create_lesion_section(EmptyTable, "s1", 1, "arm", NoNotes, 0)
    /\ issued = {"s1"}
    /\ \E n \in 2..MaxHistory :
          \E embeddings \in [1..n -> ImageEmbeddings], stamps \in Stamps(n) :
             \/ /\ history = Uploaded(embeddings, stamps, n)
                /\ nextId = n + 1
                /\ clock = stamps[n]
             \* and then user 2 uploaded an image into no section
             \/ /\ history = save_history_entry_enhanced(
                                  Uploaded(embeddings, stamps, n), n + 1,
                                  stamps[n] + 1, 2, Predictions,
                                  Emb(<<3, 4, 0, 0>>), NoSection, NoText,
                                  NoScore, FALSE, "itchy")
                /\ nextId = n + 2
                /\ clock = stamps[n] + 1
    /\ req = [w \in Workers |-> IdleReq]
    /\ overlap = {}
    /\ resp = NoResp
    /\ cc_current = NotRun
    /\ cc_previous = <<>>
    /\ cc_result = NotRun
    /\ fn_call = NoCall
    /\ fn_result = NotRun

NextReview ==
    \/ \E u \in Users, sid \in SectionIds : progress_review(u, sid)
    \/ SendResponse

SpecReview == InitReview /\ [][NextReview]_vars

\* =====================================================================
\* The server, or compute_healing_score and its companions called on
\* their own: the runs of Spec together with the runs of SpecFn
\* =====================================================================
InitScores == Init \/ InitFn

NextScores ==
    \/ fn_call = NoCall /\ Next
    \/ NextFn

SpecScores == InitScores /\ [][NextScores]_vars

\* =====================================================================
\* progress_review on a section with about as many entries as the history
\* query returns
\* =====================================================================
MaxOver == 2          \* entries of the section beyond ReviewLimit

\* n uploads at distinct instants; the first and the last image drawn from
\* ImageEmbeddings, the ones in between all alike
LongEmbeddings(n, first, last) ==
    [i \in 1..n |-> IF i = 1 THEN first
                    ELSE IF i = n THEN last
                    ELSE Emb(<<1, 0, 0, 0>>)]

InitLong ==
    /\ sections = create_lesion_section(EmptyTable, "s1", 1, "arm", NoNotes, 0)
    /\ issued = {"s1"}
    /\ \E n \in (ReviewLimit - 1)..(ReviewLimit + MaxOver) :
          \E first \in ImageEmbeddings, last \in ImageEmbeddings :
             /\ history = Uploaded(LongEmbeddings(n, first, last),
                                   [i \in 1..n |-> i], n)
             /\ nextId = n + 1
             /\ clock = n
    /\ req = [w \in Workers |-> IdleReq]
    /\ overlap = {}
    /\ resp = NoResp
    /\ cc_current = NotRun
    /\ cc_previous = <<>>
    /\ cc_result = NotRun
    /\ fn_call = NoCall
    /\ fn_result = NotRun

SpecLong == InitLong /\ [][NextReview]_vars

\* =====================================================================
\* Properties
\* =====================================================================
RowsOf(sid) == {h \in DOMAIN history : history[h].section_id = sid}
BaselinesOf(sid) == {h \in RowsOf(sid) : history[h].is_baseline}

\* C1: as long as no two uploads to a section have overlapped, a section
\* that holds at least one entry has exactly one entry with is_baseline =
\* TRUE, that entry is the first one created in the section, and every
\* later upload to the section was stored with is_baseline = FALSE.
C1_OneBaselineFirstEntry ==
    \A sid \in DOMAIN sections \ overlap :
        RowsOf(sid) # {} =>
            \E b \in RowsOf(sid) :
                /\ BaselinesOf(sid) = {b}
                /\ \A h \in RowsOf(sid) : b <= h

C1_TwoSequentialUploads ==
    \E sid \in DOMAIN sections \ overlap :
        \E b, h \in RowsOf(sid) :
            /\ b < h
            /\ history[b].is_baseline
            /\ ~history[h].is_baseline

\* C2: an upload whose existing-entries check found its section empty
\* stores its entry with is_baseline = TRUE whatever was inserted into the
\* section between the check and the INSERT; so two uploads that both
\* checked the empty section both store a baseline entry.
C2_CheckedEmptyStoresBaseline ==
    [][\A w \in Workers :
          ( /\ req[w].pc = "checked"
            /\ req[w].section_id # NoSection
            /\ req[w].existing_count = 0
            /\ req'[w].pc = "idle"
            /\ nextId' = nextId + 1 )
          => /\ history'[nextId].section_id = req[w].section_id
             /\ history'[nextId].is_baseline]_vars

C2_TwoBaselinesInOneSection ==
    \E sid \in overlap : Cardinality(BaselinesOf(sid)) = 2

\* C3: when the Gemini call fails during progress_review (it raises, or
\* the answer is blocked) and the UPDATE itself goes through, the average
\* healing score is stored on the latest entry of the section and is the
\* average returned in the response.
C3_ScorePersistedWhenLlmFails ==
    (resp.kind = "review" /\ resp.llm # "ok" /\ resp.db_ok) =>
        /\ resp.latest_entry_id \in RowsOf(resp.section_id)
        /\ resp.average_healing_score # NoScore
        /\ history[resp.latest_entry_id].healing_score = resp.average_healing_score

C3_LlmRaisedScoreStored ==
    /\ resp.kind = "review"
    /\ resp.llm = "error"
    /\ resp.db_ok
    /\ resp.average_healing_score > 0
    /\ history[resp.latest_entry_id].healing_score = resp.average_healing_score

\* C4: when the Gemini call raises during progress_review, the
\* doctor_summary of the response, and the narrative stored on the entry,
\* is the templated fallback text carrying the average healing score and
\* the trend; it is never null.
C4_TemplatedFallbackSummary ==
    (resp.kind = "review" /\ resp.llm = "error") =>
        /\ resp.doctor_summary = TemplateText(resp.average_healing_score, resp.trend)
        /\ resp.db_ok =>
             history[resp.latest_entry_id].gemini_response = resp.doctor_summary

\* C10: in a progress_review response a higher healing_percentage goes
\* with a higher similarity: a pair with similarity of 0.9 or more scores
\* 90-100%, and a pair with similarity of 0 or less scores below 50%.
C10_HigherHealingIsHigherSimilarity ==
    resp.kind = "review" =>
        \A i \in DOMAIN resp.comparisons :
            LET c == resp.comparisons[i]
            IN /\ c.current_similarity * 10 >= 9 * SimScale
                    => c.healing_percentage >= 90 * PctUnit
               /\ c.current_similarity <= 0
                    => c.healing_percentage < 50 * PctUnit

\* ---------------------------------------------- compute_comparisons alone
Returned == cc_result.kind = "returned"
CurV == cc_current.dino_embedding.v
PrevV(i) == cc_previous[i].dino_embedding.v
CurrentHasEmbedding == ~cc_current.dino_embedding.null /\ Len(CurV) > 0
PrevHasEmbedding(i) == ~cc_previous[i].dino_embedding.null /\ Len(PrevV(i)) > 0
LengthMismatch(i) == PrevHasEmbedding(i) /\ Len(PrevV(i)) # Len(CurV)
MalformedPrediction(i) ==
    /\ PrevHasEmbedding(i)
    /\ Len(cc_previous[i].disease_predictions) > 0
    /\ "disease" \notin DOMAIN cc_previous[i].disease_predictions[1]
PairFails(i) == LengthMismatch(i) \/ MalformedPrediction(i)
NonZero(v) == \E k \in DOMAIN v : v[k] # 0

\* ids of the previous entries at the positions in 'keep', in the order
\* they were supplied, from position i on
RECURSIVE IdsAt(_, _)
IdsAt(i, keep) ==
    IF i > Len(cc_previous) THEN <<>>
    ELSE (IF i \in keep THEN <<cc_previous[i].id>> ELSE <<>>) \o IdsAt(i + 1, keep)

ResultIds == [i \in DOMAIN cc_result.comparisons |->
                 cc_result.comparisons[i].previous_entry_id]
ResultHealing == [i \in DOMAIN cc_result.comparisons |->
                     cc_result.comparisons[i].healing_percentage]

\* C5 as stated: for a current entry with an embedding, the result holds
\* exactly one comparison for each previous entry with a non-empty
\* embedding and none for the others, in the order the entries were supplied.
C5_OnePerEmbeddedEntry ==
    (Returned /\ CurrentHasEmbedding) =>
        ResultIds = IdsAt(1, {i \in DOMAIN cc_previous : PrevHasEmbedding(i)})

\* C5: for a current entry with an embedding, the result holds exactly one
\* comparison for each previous entry that has a non-empty embedding and
\* whose comparison raises no error (embedding of the current entry's
\* length, top prediction with a 'disease' key), none for any other
\* previous entry, in the order the entries were supplied.
C5_OnePerComparableEntry ==
    (Returned /\ CurrentHasEmbedding) =>
        ResultIds = IdsAt(1, {i \in DOMAIN cc_previous :
                                 PrevHasEmbedding(i) /\ ~PairFails(i)})

C5_FailingPairLeftOut ==
    /\ Returned /\ CurrentHasEmbedding
    /\ Len(cc_previous) = 2
    /\ PrevHasEmbedding(1) /\ ~PairFails(1)
    /\ PairFails(2)
    /\ ResultIds = <<cc_previous[1].id>>

\* C6: the average_healing_score of the result is the arithmetic mean of
\* the healing_percentage values of exactly the comparisons returned, and
\* 0 when none is returned, also when a pair failed and was skipped.
C6_AverageOfReturned ==
    Returned =>
        cc_result.average_healing_score =
            IF Len(ResultHealing) = 0 THEN 0
            ELSE SumSeq(ResultHealing) \div Len(ResultHealing)

DefaultPolicy(s) ==
    LET p == ((SimScale - s) * 100 * PctUnit) \div (2 * SimScale)
    IN IF p < 0 THEN 0 ELSE IF p > 100 * PctUnit THEN 100 * PctUnit ELSE p

FormulaHolds ==
    \A k \in DOMAIN cc_result.comparisons :
        cc_result.comparisons[k].healing_percentage =
            DefaultPolicy(cc_result.comparisons[k].current_similarity)

ExampleHolds ==
    ( /\ CurV = <<1, 0, 0, 0>>
      /\ Len(cc_previous) = 2
      /\ ~cc_previous[1].dino_embedding.null /\ PrevV(1) = <<3, 4, 0, 0>>
      /\ ~cc_previous[2].dino_embedding.null /\ PrevV(2) = <<2, 4, 2, 1>>
      /\ ~PairFails(1) /\ ~PairFails(2) )
    => /\ ResultHealing = <<20 * PctUnit, 30 * PctUnit>>
       /\ cc_result.average_healing_score = 25 * PctUnit

\* C9 as stated: every comparison follows the default policy, a previous
\* embedding identical to the current one yields healing 0, and
\* similarities 0.6 and 0.4 yield 20 and 30 with average 25.
C9_DefaultPolicyIdenticalZero ==
    (Returned /\ CurrentHasEmbedding) =>
        /\ FormulaHolds
        /\ ExampleHolds
        /\ \A i \in DOMAIN cc_previous :
              (PrevHasEmbedding(i) /\ PrevV(i) = CurV /\ ~PairFails(i)) =>
                 \E k \in DOMAIN ResultIds :
                    /\ ResultIds[k] = cc_previous[i].id
                    /\ ResultHealing[k] = 0

\* C9: every comparison follows the default policy, healing_percentage =
\* (1 - (similarity + 1)/2) * 100 clamped to [0, 100]; a previous embedding
\* identical to the current one and not all-zero yields healing 0; and
\* similarities 0.6 and 0.4 yield 20 and 30 with average 25.
C9_DefaultPolicyNonZeroIdentical ==
    (Returned /\ CurrentHasEmbedding) =>
        /\ FormulaHolds
        /\ ExampleHolds
        /\ \A i \in DOMAIN cc_previous :
              (PrevHasEmbedding(i) /\ PrevV(i) = CurV /\ NonZero(CurV)
                  /\ ~PairFails(i)) =>
                 \E k \in DOMAIN ResultIds :
                    /\ ResultIds[k] = cc_previous[i].id
                    /\ cc_result.comparisons[k].current_similarity = SimScale
                    /\ ResultHealing[k] = 0

C9_SixTenthsFourTenths ==
    /\ Returned
    /\ CurV = <<1, 0, 0, 0>>
    /\ Len(cc_previous) = 2
    /\ PrevV(1) = <<3, 4, 0, 0>> /\ PrevV(2) = <<2, 4, 2, 1>>
    /\ Len(cc_result.comparisons) = 2
    /\ cc_result.comparisons[1].current_similarity = (6 * SimScale) \div 10
    /\ cc_result.comparisons[2].current_similarity = (4 * SimScale) \div 10
    /\ ResultHealing = <<20 * PctUnit, 30 * PctUnit>>
    /\ cc_result.average_healing_score = 25 * PctUnit


\* ---------------------------------------------------------------- C11
\* The healing percentages of a review's comparisons in the order the
\* compared entries were created, oldest first
RECURSIVE ScoresByEntry(_, _)
ScoresByEntry(comparisons, ids) ==
    IF ids = {}
    THEN <<>>
    ELSE LET oldest == CHOOSE x \in ids : \A y \in ids : x <= y
             c == CHOOSE i \in DOMAIN comparisons :
                     comparisons[i].previous_entry_id = oldest
         IN <<comparisons[c].healing_percentage>>
            \o ScoresByEntry(comparisons, ids \ {oldest})

ChronologicalScores(comparisons) ==
    ScoresByEntry(comparisons,
                  {comparisons[i].previous_entry_id : i \in DOMAIN comparisons})

\* C11: the trend a progress review reports is the trend of its healing
\* scores taken in chronological order (the comparison with the oldest
\* prior entry first, with the most recent prior entry last): 'improving'
\* exactly when the mean step over time exceeds 5, 'worsening' exactly when
\* it is below -5.  Stated for the reviews that took the most recently
\* created entry of the section as the latest one.
C11_TrendOverChronologicalScores ==
    (resp.kind = "review" /\ \A h \in RowsOf(resp.section_id) : h <= resp.latest_entry_id) =>
        resp.trend = TrendOf(ChronologicalScores(resp.comparisons))


\* ---------------------------------------------------------------- C12
TrendCalled == fn_call.fn = "analyze_trend" /\ fn_result # NotRun

\* sum of s[i+1] - s[i] over i = from .. Len(s)-1
RECURSIVE StepsFrom(_, _)
StepsFrom(s, from) ==
    IF from >= Len(s) THEN 0
    ELSE (s[from + 1] - s[from]) + StepsFrom(s, from + 1)

Pct(x) == x * PctUnit

C13_ShortHistoryIsNotAnError ==
    [][(/\ resp = NoResp
        /\ resp' # NoResp
        /\ \E sid \in SectionIds : \E u \in Users :
              /\ progress_review(u, sid)
              /\ ~NotOwned(sections, sid, u)
              /\ Cardinality(SectionRows(history, sid)) < 2)
       => (/\ resp'.kind = "review"
           /\ resp'.comparisons = <<>>
           /\ resp'.average_healing_score = 0
           /\ resp'.trend = "stable")]_vars


\* ---------------------------------------------------------------- C14
\* C14: when the current entry's embedding is null or an empty list,
\* compute_comparisons returns an empty comparison list and an average of
\* 0.0 without raising, whatever the previous entries are.
C14_NoCurrentEmbeddingNoComparisons ==
    (cc_result # NotRun
       /\ (cc_current.dino_embedding.null \/ cc_current.dino_embedding.v = <<>>))
    => /\ cc_result.kind = "returned"
       /\ cc_result.comparisons = <<>>
       /\ cc_result.average_healing_score = 0

\* the call was made with an empty-list current embedding and a previous
\* entry that has an embedding
C14_EmptyCurrentAgainstEmbedded ==
    /\ cc_result # NotRun
    /\ ~cc_current.dino_embedding.null
    /\ cc_current.dino_embedding.v = <<>>
    /\ \E i \in DOMAIN cc_previous :
          /\ ~cc_previous[i].dino_embedding.null
          /\ Len(cc_previous[i].dino_embedding.v) = 4
    /\ cc_result.kind = "returned"


\* ---------------------------------------------------------------- C15
HealingCalled == fn_call.fn = "compute_healing_score" /\ fn_result # NotRun

InPercentRange(x) == 0 <= x /\ x <= Pct(100)

\* C15: compute_healing_score returns a value in [0, 100] for every pair
\* of non-empty vectors of equal length, under either setting of
\* higher_similarity_means_better; and the healing_score stored on a
\* history entry is always null or in [0, 100].
C15_HealingScoreInRange ==
    /\ (HealingCalled
          /\ Len(fn_call.current_embedding) > 0
          /\ Len(fn_call.current_embedding) = Len(fn_call.previous_embedding))
       => (fn_result.kind = "returned" /\ InPercentRange(fn_result.value))
    /\ \A h \in DOMAIN history :
          history[h].healing_score = NoScore
          \/ InPercentRange(history[h].healing_score)

\* the function was called on two opposite vectors, where the similarity
\* is -1 and the score is at an end of the range
C15_OppositeVectorsScored ==
    /\ HealingCalled
    /\ fn_call.current_embedding = <<1, 0, 0, 0>>
    /\ fn_call.previous_embedding = <<-1, 0, 0, 0>>
    /\ fn_call.higher_similarity_means_better
    /\ fn_result.value = 0


\* ---------------------------------------------------------------- C16
CosineCalled == fn_call.fn = "cosine_similarity" /\ fn_result # NotRun

AllZero(v) == Len(v) > 0 /\ \A i \in DOMAIN v : v[i] = 0

ReturnedZero == fn_result.kind = "returned" /\ fn_result.value = 0

\* C16 as claimed: cosine_similarity returns 0.0, without raising, whenever
\* either argument is empty or either argument is an all-zero vector,
\* whatever the other argument is.
C16_EmptyOrZeroGivesZero ==
    (CosineCalled
       /\ (\/ fn_call.embedding1 = <<>> \/ fn_call.embedding2 = <<>>
           \/ AllZero(fn_call.embedding1) \/ AllZero(fn_call.embedding2)))
    => ReturnedZero

\* C16 amended: cosine_similarity returns 0.0, without raising, whenever
\* either argument is empty, whatever the other is, and whenever either
\* argument is an all-zero vector and the other has the same length; an
\* all-zero vector against a non-empty vector of another length raises.
C16_EmptyOrZeroOfEqualLengthGivesZero ==
    CosineCalled =>
        /\ (fn_call.embedding1 = <<>> \/ fn_call.embedding2 = <<>>) => ReturnedZero
        /\ ((AllZero(fn_call.embedding1) \/ AllZero(fn_call.embedding2))
              /\ Len(fn_call.embedding1) = Len(fn_call.embedding2)) => ReturnedZero
        /\ ((AllZero(fn_call.embedding1) \/ AllZero(fn_call.embedding2))
              /\ fn_call.embedding1 # <<>> /\ fn_call.embedding2 # <<>>
              /\ Len(fn_call.embedding1) # Len(fn_call.embedding2))
           => fn_result.kind = "raised"

\* the function was called on an all-zero vector and a non-zero vector of
\* the same length, and returned 0.0
C16_ZeroAgainstNonZero ==
    /\ CosineCalled
    /\ fn_call.embedding1 = <<0, 0, 0, 0>>
    /\ fn_call.embedding2 = <<3, 4, 0, 0>>
    /\ ReturnedZero


\* ---------------------------------------------------------------- C17
FixedAtCreation(row) ==
    [dino_embedding |-> row.dino_embedding,
     disease_predictions |-> row.disease_predictions,
     is_baseline |-> row.is_baseline,
     section_id |-> row.section_id,
     user_id |-> row.user_id,
     timestamp |-> row.timestamp,
     user_notes |-> row.user_notes,
     id |-> row.id]

\* C17: once an entry exists, no upload, progress review or section update
\* changes its embedding, predictions, baseline flag, section reference,
\* owner, timestamp or notes: in every step, an entry that is there before
\* and after differs at most in gemini_response and healing_score.
C17_OnlyNarrativeAndScoreChange ==
    [][\A h \in DOMAIN history \cap DOMAIN history' :
          FixedAtCreation(history'[h]) = FixedAtCreation(history[h])]_vars

\* an existing entry has been rewritten by a progress review, whose
\* response has been sent: the entry carries a narrative and a healing
\* score, and is otherwise as the upload stored it
C17_EntryRewrittenByReview ==
    /\ resp = NoResp
    /\ \E h \in DOMAIN history :
          /\ history[h].healing_score # NoScore
          /\ history[h].gemini_response # NoText
          /\ history[h].user_notes = "itchy"
          /\ history[h].disease_predictions = Predictions


\* ---------------------------------------------------------------- C18
\* C18: a progress review of section S changes at most gemini_response and
\* healing_score of the one entry it took as the latest entry of S; every
\* other entry of S, every entry outside S and every section stay as they
\* were, and no entry is created or deleted.  Stated over the steps that
\* produce a response, a review's result or an error: in SpecReview these
\* are the steps of progress_review.
C18_ReviewWritesLatestEntryOnly ==
    [][(resp = NoResp /\ resp'.kind \in {"review", "error"})
       => /\ DOMAIN history' = DOMAIN history
          /\ sections' = sections
          /\ \A h \in DOMAIN history :
                IF resp'.kind = "review" /\ h = resp'.latest_entry_id
                THEN /\ history[h].section_id = resp'.section_id
                     /\ FixedAtCreation(history'[h]) = FixedAtCreation(history[h])
                ELSE history'[h] = history[h]]_vars

\* a review has stored its score on the latest entry of a section that
\* holds other entries, next to an entry of another user outside the
\* section; none of the others carries a score
C18_ScoreOnLatestOnly ==
    /\ resp.kind = "review"
    /\ resp.db_ok
    /\ history[resp.latest_entry_id].healing_score = resp.average_healing_score
    /\ Cardinality(RowsOf(resp.section_id)) >= 3
    /\ \E h \in DOMAIN history :
          history[h].user_id = 2 /\ history[h].section_id = NoSection
    /\ \A h \in DOMAIN history \ {resp.latest_entry_id} :
          history[h].healing_score = NoScore /\ history[h].gemini_response = NoText


\* ---------------------------------------------------------------- C19
\* What a progress review of section sid computes in the current state, one
\* result for each order in which the history query may return the rows
SecondRuns(sid) ==
    {ReviewNumbers(all_entries) :
        all_entries \in {a \in get_section_history(history, sid, 0, ReviewLimit) :
                            Len(a) >= 2}}

\* C19: a progress review is an idempotent overwrite.  In the state a
\* review leaves behind (its result in resp, its score stored), a second
\* review of the same section, with no upload in between, returns the same
\* comparisons, the same average and the same trend, and stores that
\* average on the same latest entry, so that the stored healing_score is
\* what it was after the first run.
C19_SecondReviewSameResult ==
    (resp.kind = "review" /\ resp.db_ok) =>
        \A second \in SecondRuns(resp.section_id) :
            /\ ~second.raised
            /\ second.comparisons = resp.comparisons
            /\ second.average_healing_score = resp.average_healing_score
            /\ second.trend = resp.trend
            /\ second.latest_entry_id = resp.latest_entry_id
            /\ history[second.latest_entry_id].healing_score
                  = second.average_healing_score


\* ---------------------------------------------------------------- C20
\* C20: a progress review compares the latest entry of the section with
\* all previous entries, whatever the size of the section: every other
\* entry of the section that has an embedding, the baseline entry
\* included, appears in the comparisons of the result.  Stated for a
\* latest entry that has an embedding itself.
C20_AllEarlierEntriesCompared ==
    (resp.kind = "review"
       /\ HasEmbedding(history[resp.latest_entry_id].dino_embedding)) =>
        \A h \in RowsOf(resp.section_id) \ {resp.latest_entry_id} :
            HasEmbedding(history[h].dino_embedding) =>
                \E i \in DOMAIN resp.comparisons :
                    resp.comparisons[i].previous_entry_id = h


\* ---------------------------------------------------------------- C21
\* a request of user u that names section sid
SectionScoped(u, sid) ==
    \/ get_section(u, sid)
    \/ \E n \in UpdateArgs, d \in UpdateArgs : update_section(u, sid, n, d)
    \/ delete_section(u, sid)
    \/ \E o \in AnalyzeOutcomes : analyze_with_auto_save(u, sid, o)
    \/ progress_review(u, sid)
    \/ get_section_history_endpoint(u, sid)

\* C21: a section is accessible to its owner only.  A get, update, delete,
\* upload, progress review or history request that names a section owned
\* by another user is answered 404 'Section not found', and it creates,
\* changes and deletes no section and no entry.
C21_NonOwnerGetsNotFound ==
    [][\A u \in Users, sid \in SectionIds :
          (sid \in DOMAIN sections /\ sections[sid].user_id # u
             /\ SectionScoped(u, sid))
          => (resp' = ErrorResp(404) /\ sections' = sections /\ history' = history)]_vars

\* a request on an existing section that holds an entry was answered 404,
\* which the handlers do for a caller who is not the owner
C21_StrangerRefused ==
    /\ resp = ErrorResp(404)
    /\ \E sid \in DOMAIN sections : RowsOf(sid) # {}


\* ---------------------------------------------------------------- C22
\* C22: every history entry with a non-null section_id references a section
\* that exists, in every reachable state, uploads in flight during a
\* delete_section included.
C22_EntriesReferenceExistingSection ==
    \A h \in DOMAIN history :
        history[h].section_id # NoSection => history[h].section_id \in DOMAIN sections


\* ---------------------------------------------------------------- C23
\* C23: the entry a progress review takes as the current entry is the most
\* recently created entry of the section (ids are handed out in creation
\* order), and every entry it is compared with was created before it, for
\* every sequence of uploads, uploads with equal stored timestamps included.
C23_CurrentIsMostRecentlyCreated ==
    resp.kind = "review" =>
        /\ \A h \in RowsOf(resp.section_id) : h <= resp.latest_entry_id
        /\ \A i \in DOMAIN resp.comparisons :
              resp.comparisons[i].previous_entry_id < resp.latest_entry_id


\* ---------------------------------------------------------------- C24
FailedUpload ==
    \E u \in Users, sid \in SectionIds \cup {NoSection} :
        \E o \in {"analyze_fail", "save_fail"} : analyze_with_auto_save(u, sid, o)

Supplied(arg, old) == IF arg.tag = "str" THEN arg.s ELSE old

\* C25: update_section by the owner succeeds and sets the section's name to
\* the supplied section_name and its description to the supplied
\* description, a field that was not supplied keeping its value; the
\* section's id, owner and creation time and all entries stay as they were.
C25_OwnerUpdateApplied ==
    [][\A u \in Users, sid \in SectionIds, n \in UpdateArgs, d \in UpdateArgs :
          (/\ resp = NoResp
           /\ sid \in DOMAIN sections
           /\ sections[sid].user_id = u
           /\ update_section(u, sid, n, d))
          => /\ resp' = [kind |-> "section", op |-> "update", section_id |-> sid]
             /\ sections' = [sections EXCEPT
                               ![sid].section_name = Supplied(n, @),
                               ![sid].description = Supplied(d, @)]
             /\ history' = history]_vars


\* ---------------------------------------------------------------- C26
\* C26: every history entry that references a section belongs to the
\* section's owner: its user_id is the user_id of the section, whatever
\* uploads the users have made and however they overlapped.
C26_EntryOwnerIsSectionOwner ==
    \A h \in DOMAIN history :
        history[h].section_id \in DOMAIN sections
        => history[h].user_id = sections[history[h].section_id].user_id

\* both users have uploaded: the owner into the section, the other user
\* without a section
C26_OwnerAndStrangerUploaded ==
    \E h, g \in DOMAIN history :
        /\ history[h].section_id \in DOMAIN sections
        /\ history[g].section_id = NoSection
        /\ history[g].user_id # sections[history[h].section_id].user_id


\* ---------------------------------------------------------------- C27
StoredAsReturned(hist, r) ==
    /\ hist[r.latest_entry_id].healing_score = r.average_healing_score
    /\ hist[r.latest_entry_id].gemini_response = r.doctor_summary

FloatTrendCalled ==
    /\ fn_call.fn = "analyze_trend"
    /\ fn_result # NotRun
    /\ Len(fn_call.healing_scores) >= 2

\* The trend that the first score, the last score and the count give
EndpointTrend(s) ==
    IF s[Len(s)] - s[1] > TrendThreshold * (Len(s) - 1) THEN "improving"
    ELSE IF s[Len(s)] - s[1] < 0 - TrendThreshold * (Len(s) - 1)
    THEN "worsening"
    ELSE "stable"

Reversed(s) == [i \in 1..Len(s) |-> s[Len(s) + 1 - i]]

SwappedTrend(t) ==
    IF t = "improving" THEN "worsening"
    ELSE IF t = "worsening" THEN "improving" ELSE t

\* No difference and no running sum of the differences is rounded
NoRounding(s) ==
    /\ \A i \in 1..(Len(s) - 1) : Fl(s[i + 1] - s[i]) = s[i + 1] - s[i]
    /\ \A k \in 2..(Len(s) - 1) :
          LET changes == [i \in 1..(Len(s) - 1) |-> s[i + 1] - s[i]]
          IN FlSum(changes, k) = FlSum(changes, k - 1) + changes[k]

\* C28 as stated: for n >= 2 scores analyze_trend returns 'improving' iff
\* last - first > 5*(n-1), 'worsening' iff last - first < -5*(n-1) and
\* 'stable' otherwise, so that the intermediate scores never influence the
\* trend and reversing the sequence swaps 'improving' with 'worsening'.
C28_TrendByEndpoints ==
    FloatTrendCalled
        => /\ fn_result.value = EndpointTrend(fn_call.healing_scores)
           /\ analyze_trend_float(Reversed(fn_call.healing_scores))
                 = SwappedTrend(fn_result.value)

\* C28 amended: for n >= 2 scores whose differences and running sums are
\* computed without rounding, analyze_trend returns 'improving' iff
\* last - first > 5*(n-1), 'worsening' iff last - first < -5*(n-1) and
\* 'stable' otherwise, whatever the intermediate scores are; and when the
\* reversed sequence is computed without rounding as well, reversing swaps
\* 'improving' with 'worsening'.
C28_TrendByEndpointsWithoutRounding ==
    (FloatTrendCalled /\ NoRounding(fn_call.healing_scores))
        => /\ fn_result.value = EndpointTrend(fn_call.healing_scores)
           /\ NoRounding(Reversed(fn_call.healing_scores))
                 => analyze_trend_float(Reversed(fn_call.healing_scores))
                       = SwappedTrend(fn_result.value)

\* Three scores computed without rounding, the middle one above both ends,
\* classified as improving
C28_MiddleScoreIgnored ==
    /\ FloatTrendCalled
    /\ Len(fn_call.healing_scores) = 3
    /\ NoRounding(fn_call.healing_scores)
    /\ fn_call.healing_scores[2] > fn_call.healing_scores[3]
    /\ fn_result.value = "improving"


\* ---------------------------------------------------------------- C29
\* the entries of the reviewed section, the latest one apart, that have an
\* embedding
EmbeddedPriors(r) ==
    {h \in RowsOf(r.section_id) \ {r.latest_entry_id} :
        HasEmbedding(history[h].dino_embedding)}

\* C29: progress_review reports 'improving' or 'worsening' only when at
\* least two comparisons were produced; for a section with exactly two
\* entries, or with only one prior entry that has an embedding, the trend
\* is 'stable' whatever the healing score is.
C29_TrendNeedsTwoComparisons ==
    resp.kind = "review" =>
        /\ resp.trend \in {"improving", "worsening"}
              => Len(resp.comparisons) >= 2
        /\ resp.total_entries = 2 => resp.trend = "stable"
        /\ Cardinality(EmbeddedPriors(resp)) = 1 => resp.trend = "stable"

\* a review of a section of three entries, one prior entry without an
\* embedding: the single comparison scores away from the neutral 50 and
\* the trend is stable
C29_SingleComparisonStable ==
    /\ resp.kind = "review"
    /\ resp.total_entries = 3
    /\ Cardinality(EmbeddedPriors(resp)) = 1
    /\ Len(resp.comparisons) = 1
    /\ resp.comparisons[1].healing_percentage # 50 * PctUnit
    /\ resp.trend = "stable"


\* ---------------------------------------------------------------- C30
ZeroPrior(i) == PrevHasEmbedding(i) /\ AllZero(PrevV(i))

\* previous entry i has a comparison in the result, with similarity 0.0 and
\* healing_percentage 50.0: the 50.0 is then among the healing_percentage
\* values from which progress_review takes the scores of the trend
ComparedAsNeutral(i) ==
    \E k \in DOMAIN cc_result.comparisons :
        /\ cc_result.comparisons[k].previous_entry_id = cc_previous[i].id
        /\ cc_result.comparisons[k].current_similarity = 0
        /\ cc_result.comparisons[k].healing_percentage = Pct(50)

NotCompared(i) ==
    \A k \in DOMAIN cc_result.comparisons :
        cc_result.comparisons[k].previous_entry_id # cc_previous[i].id

\* the healing scores of the previous entries from position i on whose
\* embedding has the current embedding's length, 50.0 for an all-zero one
RECURSIVE ScoresCounted(_)
ScoresCounted(i) ==
    IF i > Len(cc_previous) THEN <<>>
    ELSE IF ~PrevHasEmbedding(i) \/ LengthMismatch(i) THEN ScoresCounted(i + 1)
    ELSE IF AllZero(PrevV(i)) THEN <<Pct(50)>> \o ScoresCounted(i + 1)
    ELSE <<compute_healing_score(CurV, PrevV(i), FALSE).value>>
            \o ScoresCounted(i + 1)

AverageOfCounted ==
    cc_result.average_healing_score =
        IF ScoresCounted(1) = <<>> THEN 0
        ELSE SumSeq(ScoresCounted(1)) \div Len(ScoresCounted(1))

\* C30 as stated, for a current entry that has an embedding: a previous
\* entry whose embedding is non-empty and all-zero is not skipped, it has a
\* comparison with similarity 0.0 and healing_percentage 50.0 in the
\* result, and that 50.0 is counted in average_healing_score and is among
\* the scores of the trend.
C30_ZeroPriorCompared ==
    (Returned /\ CurrentHasEmbedding) =>
        \A i \in DOMAIN cc_previous :
            ZeroPrior(i) =>
                /\ ComparedAsNeutral(i)
                /\ AverageOfCounted

\* C30 amended: for a current entry that has an embedding, a previous entry
\* whose embedding is all-zero and of the current embedding's length is
\* scored 50.0 and the 50.0 is counted in average_healing_score; it has a
\* comparison with similarity 0.0 and healing_percentage 50.0, which puts
\* the 50.0 among the scores of the trend, unless its top prediction has no
\* 'disease' key, and then it has no comparison.  An all-zero previous
\* embedding of another length has no comparison and counts for nothing in
\* the average.
C30_ZeroPriorOfEqualLengthScored ==
    (Returned /\ CurrentHasEmbedding) =>
        /\ AverageOfCounted
        /\ \A i \in DOMAIN cc_previous :
              ZeroPrior(i) =>
                 IF LengthMismatch(i) \/ MalformedPrediction(i)
                 THEN NotCompared(i)
                 ELSE ComparedAsNeutral(i)

\* the current embedding [1,0,0,0] compared with [3,4,0,0] and with an
\* all-zero embedding: two comparisons, 20 and 50, average 35
C30_ZeroPriorInAverage ==
    /\ Returned
    /\ CurV = <<1, 0, 0, 0>>
    /\ Len(cc_previous) = 2
    /\ PrevV(1) = <<3, 4, 0, 0>> /\ ~PairFails(1)
    /\ ZeroPrior(2) /\ ~PairFails(2)
    /\ ComparedAsNeutral(2)
    /\ Len(cc_result.comparisons) = 2
    /\ cc_result.average_healing_score = Pct(35)

====
